---- MODULE Spec2Model ----
(***************************************************************************)
(* The Spin key-value backed authorizer and issuer of oxide-auth-db         *)
(* (src/oxide-auth-db/src/db_service/spin_kv.rs).                           *)
(*                                                                          *)
(* The store is a map from string keys to byte values.  Every call of the   *)
(* store (get, set, delete) is one atomic step of the caller that makes it; *)
(* callers share nothing but the store.  A handler is the sequence of its   *)
(* store calls, the computation between two store calls belonging to the    *)
(* step of the later one.                                                   *)
(***************************************************************************)
EXTENDS Integers, Sequences, FiniteSets, TLC

\* ------------------------------------------------------------------ bounds
\* Number of concurrent callers (request contexts) of the specification Spec.
NProcs == 2
\* Number of calls started in one behaviour.
MaxCalls == 3
\* Number of store calls that may fail with an I/O error in one behaviour.
MaxFaults == 1
\* Width in bits of the usage counter (u64 in the source).
Width == 3

Procs == 1..NProcs
Modulus == 2 ^ Width
Counters == 0..(Modulus - 1)
Grants == {"g1", "g2"}

\* ------------------------------------------------------------------ values
\* Option<T>
None == <<>>
Some(x) == <<x>>

\* The reserved key of the counter.
UsageKey == "usage"

\* The tag generators a caller can supply: "counter" derives the tag from the
\* counter value alone (distinct counter values give distinct tags), "empty"
\* produces the empty string, "fail" returns Err(()).
TaggerKinds == {"counter", "empty", "fail"}

\* TagGrant::tag(counter, grant) -> Result<String, ()>
Tag(kind, counter, grant) ==
    CASE kind = "counter" -> [ok |-> TRUE, tag |-> ToString(counter)]
      [] kind = "empty" -> [ok |-> TRUE, tag |-> ""]
      [] OTHER -> [ok |-> FALSE, tag |-> ""]

\* Every key of the store: the counter's key and every tag.
Keys == {UsageKey, ""} \cup {ToString(c) : c \in Counters}
\* The token strings a caller passes to extract, refresh and the recover calls:
\* the counter's key and the tags of the counter values that MaxCalls calls can
\* draw from a counter at zero (a call draws two at most).  The other tags are
\* never stored, and a call on one behaves as a call on any absent key.
Tokens == {UsageKey} \cup {ToString(c) : c \in {n \in Counters : n < 2 * MaxCalls}}

\* Stored bytes.  Absent: no value under the key.
Absent == [kind |-> "absent"]
\* u64::to_be_bytes: the 8 bytes of the counter.
U64Bytes(n) == [kind |-> "u64", n |-> n]
\* serde_json::to_vec of a Grant.
GrantJson(g) == [kind |-> "grant", grant |-> g]
\* The Token record and serde_json::to_vec of it.
Token(access, refresh, grant) ==
    [access |-> access, refresh |-> refresh, grant |-> grant]
TokenJson(t) ==
    [kind |-> "token", access |-> t.access, refresh |-> t.refresh, grant |-> t.grant]

\* EncodedClient: the client id and the rest of the record.
ClientIds == {"c1", "c2"}
Clients == [client_id : ClientIds, data : {"d1", "d2"}]
\* serde_json::to_vec of an EncodedClient.
ClientJson(c) == [kind |-> "client", client_id |-> c.client_id, data |-> c.data]

\* ------------------------------------------------------------------ state
VARIABLES
    store,      \* the key-value store: key -> bytes or Absent
    pc,         \* per caller: the store call its handler makes next
    loc,        \* per caller: the arguments and local variables of its handler
    ret,        \* per caller: its last completed call and what it returned
    ncalls,     \* calls started so far
    faults,     \* store calls that have failed with an I/O error so far
    flimit,     \* how many store calls the store may fail in all
    tagger,     \* the tag generator the authorizer and issuer were built with
    handed,     \* history: <<call, counter>> for every counter value given to tag
    redeemed,   \* history: per code, successful extracts since authorize stored it
    codes,      \* history: per code, the grant of the authorize call that returned it
    pairs,      \* history: the token pairs returned by successful issue calls
    before,     \* history: the store when the call started last was started
    clients,    \* the registrar's key-value store: client id -> bytes or Absent
    registered, \* history: per client id, the clients registered under it, in order
    regret      \* the registrar's last completed call and what it returned

ghost == <<handed, redeemed, codes, pairs>>
registrar == <<clients, registered, regret>>
vars == <<store, pc, loc, ret, ncalls, faults, flimit, tagger, handed, redeemed, codes, pairs,
          before, clients, registered, regret>>

\* The locals of a handler before it is called.
IdleLoc ==
    [op |-> "", arg |-> "", garg |-> "", call |-> 0, usage |-> 0, next_usage |-> 0,
     access |-> "", refresh |-> "", rec |-> Absent]

NewCall(op, arg, garg) ==
    [IdleLoc EXCEPT !.op = op, !.arg = arg, !.garg = garg, !.call = ncalls + 1]

\* What a call gave back to its caller.  kind: "Ok", "Err" (the unit error
\* value, cause recording which failure produced it), "Panic" (the call
\* unwound), "NoValue" (the handler's body ended without a value).
Res(kind, cause, token, refresh, grant) ==
    [kind |-> kind, cause |-> cause, token |-> token, refresh |-> refresh, grant |-> grant]
Err(cause) == Res("Err", cause, "", None, None)
\* map_err(|_| ()): the error value the caller gets for a failure of that cause.
ErrValue(cause) == "()"
Panic(cause) == Res("Panic", cause, "", None, None)
NoRet == [op |-> "", arg |-> "", garg |-> "", call |-> 0] @@ Res("", "", "", None, None)

\* What a call of the registrar gave back: kind "Ok" or "Err", client the
\* EncodedClient of an Ok find_client_by_id.
RegRes(op, id, call, kind, cause, client) ==
    [op |-> op, id |-> id, call |-> call, kind |-> kind, cause |-> cause, client |-> client]
NoRegRet == RegRes("", "", 0, "", "", None)

\* ------------------------------------------------------- the store's calls
\* The outcomes of one store call: it works, or it fails with an I/O error.
IoOutcomes == IF faults < flimit THEN {"ok", "io"} ELSE {"ok"}
Fault(io) == faults' = IF io = "io" THEN faults + 1 ELSE faults

\* Store::set
SetKey(s, key, value) == [s EXCEPT ![key] = value]
\* A delete that leaves the entry in place (mutant of DeleteKey).
DeleteKeyKept(s, key) == s
\* Store::delete: no error when the key is absent.
DeleteKey(s, key) == [s EXCEPT ![key] = Absent]

\* JsonStore::get_json::<T>: Store::get, then serde_json::from_slice.  want is
\* the type asked for: "grant" for Option<Grant>, "token" for Token.  The JSON
\* of a Grant lacks the fields of a Token and the other way round, and the 8
\* bytes of the counter are no JSON of either: from_slice fails on them.
GetJson(s, io, key, want) ==
    IF io = "io" THEN [ok |-> FALSE, cause |-> "StoreError", value |-> Absent]
    ELSE IF s[key] = Absent THEN [ok |-> FALSE, cause |-> "NotFound", value |-> Absent]
    ELSE IF s[key].kind # want
         THEN [ok |-> FALSE, cause |-> "SerializationError", value |-> Absent]
    ELSE [ok |-> TRUE, cause |-> "", value |-> s[key]]

\* A get_u64 that reads an absent counter as zero (mutant of GetU64).
GetU64OrZero(s, io, key) ==
    IF io = "io" THEN [ok |-> FALSE, cause |-> "StoreError", n |-> 0]
    ELSE IF s[key] = Absent THEN [ok |-> TRUE, cause |-> "", n |-> 0]
    ELSE IF s[key].kind # "u64" THEN [ok |-> FALSE, cause |-> "SerializationError", n |-> 0]
    ELSE [ok |-> TRUE, cause |-> "", n |-> s[key].n]
\* JsonStore::get_u64: Store::get, then the 8 bytes as a big-endian u64.
GetU64(s, io, key) ==
    IF io = "io" THEN [ok |-> FALSE, cause |-> "StoreError", n |-> 0]
    ELSE IF s[key] = Absent THEN [ok |-> FALSE, cause |-> "NotFound", n |-> 0]
    ELSE IF s[key].kind # "u64" THEN [ok |-> FALSE, cause |-> "SerializationError", n |-> 0]
    ELSE [ok |-> TRUE, cause |-> "", n |-> s[key].n]

\* u64::wrapping_add
WrappingAdd(a, b) == (a + b) % Modulus

\* a - b on u64: below zero it panics where overflow checks are compiled in and
\* wraps where they are not.  Overflow stands for the panic.
Overflow == -1
CheckedSub(a, b) == IF a >= b THEN {a - b} ELSE {Overflow, (a - b) % Modulus}

\* debug_assert!(tag.len() > 0): panics where debug assertions are compiled in.
DebugAssertNonEmpty(tag) == IF tag # "" THEN {"pass"} ELSE {"pass", "panic"}

\* SpinKeyValueIssuer::set_duration: duration is None, the grant is left alone.
SetDuration(grant) == grant

\* ------------------------------------------------------------ control flow
Goto(p, label, newloc) ==
    /\ pc' = [pc EXCEPT ![p] = label]
    /\ loc' = [loc EXCEPT ![p] = newloc]
    /\ UNCHANGED ret

Finish(p, call, res) ==
    /\ pc' = [pc EXCEPT ![p] = "idle"]
    /\ loc' = [loc EXCEPT ![p] = IdleLoc]
    /\ ret' = [ret EXCEPT ![p] =
                 [op |-> call.op, arg |-> call.arg, garg |-> call.garg,
                  call |-> call.call] @@ res]

CanCall(p) == pc[p] = "idle" /\ ncalls < MaxCalls

\* ------------------------------------------------------------ Authorizer
\* authorize: let usage = self.get_u64("usage")?; next_usage = usage.wrapping_add(1)
AuthorizeGet(p, grant) ==
    /\ CanCall(p)
    /\ ncalls' = ncalls + 1
    /\ before' = store
    /\ \E io \in IoOutcomes :
         LET call == NewCall("authorize", "", grant)
             r == GetU64(store, io, UsageKey)
         IN /\ Fault(io)
            /\ IF r.ok
               THEN Goto(p, "a_set", [call EXCEPT !.usage = r.n,
                                                  !.next_usage = WrappingAdd(r.n, 1)])
               ELSE Finish(p, call, Err(r.cause))
    /\ UNCHANGED <<store, tagger, flimit, ghost, registrar>>

\* authorize: token = self.tagger.tag(next_usage - 1, &grant)?; self.set_json(&token, &grant)?
AuthorizeSet(p) ==
    /\ pc[p] = "a_set"
    /\ \E c \in CheckedSub(loc[p].next_usage, 1), io \in IoOutcomes :
         LET t == Tag(tagger, c, loc[p].garg) IN
         IF c = Overflow
         THEN /\ Finish(p, loc[p], Panic("overflow"))
              /\ UNCHANGED <<store, faults, ghost>>
         ELSE /\ handed' = handed \cup {<<loc[p].call, c>>}
              /\ IF ~t.ok
                 THEN /\ Finish(p, loc[p], Err("TagGenerationError"))
                      /\ UNCHANGED <<store, faults, redeemed>>
                 ELSE /\ Fault(io)
                      /\ IF io = "io"
                         THEN /\ Finish(p, loc[p], Err("StoreError"))
                              /\ UNCHANGED <<store, redeemed>>
                         ELSE /\ store' = SetKey(store, t.tag, GrantJson(loc[p].garg))
                              /\ redeemed' = [redeemed EXCEPT ![t.tag] = 0]
                              /\ Goto(p, "a_usage", [loc[p] EXCEPT !.access = t.tag])
              /\ UNCHANGED <<codes, pairs>>
    /\ UNCHANGED <<ncalls, tagger, flimit, before, registrar>>

\* authorize: self.set_u64("usage", next_usage)?; Ok(token)
AuthorizeUsage(p) ==
    /\ pc[p] = "a_usage"
    /\ \E io \in IoOutcomes :
         /\ Fault(io)
         /\ IF io = "io"
            THEN /\ Finish(p, loc[p], Err("StoreError"))
                 /\ UNCHANGED <<store, codes>>
            ELSE /\ store' = SetKey(store, UsageKey, U64Bytes(loc[p].next_usage))
                 /\ codes' = [codes EXCEPT ![loc[p].access] = Some(loc[p].garg)]
                 /\ Finish(p, loc[p], Res("Ok", "", loc[p].access, None, None))
    /\ UNCHANGED <<ncalls, tagger, flimit, handed, redeemed, pairs, before, registrar>>

\* extract: let grant = self.get_json(token)?
ExtractGet(p, token) ==
    /\ CanCall(p)
    /\ ncalls' = ncalls + 1
    /\ before' = store
    /\ \E io \in IoOutcomes :
         LET call == NewCall("extract", token, "")
             r == GetJson(store, io, token, "grant")
         IN /\ Fault(io)
            /\ IF r.ok
               THEN Goto(p, "e_del", [call EXCEPT !.rec = r.value])
               ELSE Finish(p, call, Err(r.cause))
    /\ UNCHANGED <<store, tagger, flimit, ghost, registrar>>

\* extract: self.store.delete(token)?; Ok(grant)
ExtractDelete(p) ==
    /\ pc[p] = "e_del"
    /\ \E io \in IoOutcomes :
         /\ Fault(io)
         /\ IF io = "io"
            THEN /\ Finish(p, loc[p], Err("StoreError"))
                 /\ UNCHANGED <<store, redeemed>>
            ELSE /\ store' = DeleteKey(store, loc[p].arg)
                 /\ redeemed' = [redeemed EXCEPT ![loc[p].arg] = @ + 1]
                 /\ Finish(p, loc[p], Res("Ok", "", "", None, Some(loc[p].rec.grant)))
    /\ UNCHANGED <<ncalls, tagger, flimit, handed, codes, pairs, before, registrar>>

\* ---------------------------------------------------------------- Issuer
\* issue: self.set_duration(&mut grant); usage = self.get_u64("usage")?;
\* next_usage = usage.wrapping_add(2)
IssueGet(p, grant) ==
    /\ CanCall(p)
    /\ ncalls' = ncalls + 1
    /\ before' = store
    /\ \E io \in IoOutcomes :
         LET call == NewCall("issue", "", SetDuration(grant))
             r == GetU64(store, io, UsageKey)
         IN /\ Fault(io)
            /\ IF r.ok
               THEN Goto(p, "i_access", [call EXCEPT !.usage = r.n,
                                                     !.next_usage = WrappingAdd(r.n, 2)])
               ELSE Finish(p, call, Err(r.cause))
    /\ UNCHANGED <<store, tagger, flimit, ghost, registrar>>

\* issue: access = tag(next_usage - 2)?; refresh = tag(next_usage - 1)?; the two
\* debug_assert!s; token = Token {access, refresh: Some(refresh), grant};
\* self.set_json(&access, &token)?
IssueAccess(p) ==
    /\ pc[p] = "i_access"
    /\ \E ca \in CheckedSub(loc[p].next_usage, 2), cr \in CheckedSub(loc[p].next_usage, 1),
          io \in IoOutcomes :
       \E da \in DebugAssertNonEmpty(Tag(tagger, ca, loc[p].garg).tag),
          dr \in DebugAssertNonEmpty(Tag(tagger, cr, loc[p].garg).tag) :
         LET ta == Tag(tagger, ca, loc[p].garg)
             tr == Tag(tagger, cr, loc[p].garg)
             token == Token(ta.tag, Some(tr.tag), loc[p].garg)
         IN
         IF ca = Overflow
         THEN /\ Finish(p, loc[p], Panic("overflow"))
              /\ UNCHANGED <<store, faults, handed>>
         ELSE IF ~ta.ok
         THEN /\ handed' = handed \cup {<<loc[p].call, ca>>}
              /\ Finish(p, loc[p], Err("TagGenerationError"))
              /\ UNCHANGED <<store, faults>>
         ELSE IF cr = Overflow
         THEN /\ handed' = handed \cup {<<loc[p].call, ca>>}
              /\ Finish(p, loc[p], Panic("overflow"))
              /\ UNCHANGED <<store, faults>>
         ELSE /\ handed' = handed \cup {<<loc[p].call, ca>>, <<loc[p].call, cr>>}
              /\ IF ~tr.ok
                 THEN /\ Finish(p, loc[p], Err("TagGenerationError"))
                      /\ UNCHANGED <<store, faults>>
                 ELSE IF da = "panic" \/ dr = "panic"
                 THEN /\ Finish(p, loc[p], Panic("empty token"))
                      /\ UNCHANGED <<store, faults>>
                 ELSE /\ Fault(io)
                      /\ IF io = "io"
                         THEN /\ Finish(p, loc[p], Err("StoreError"))
                              /\ UNCHANGED store
                         ELSE /\ store' = SetKey(store, token.access, TokenJson(token))
                              /\ Goto(p, "i_refresh", [loc[p] EXCEPT !.access = ta.tag,
                                                                     !.refresh = tr.tag])
    /\ UNCHANGED <<ncalls, tagger, flimit, redeemed, codes, pairs, before, registrar>>

\* issue: self.set_json(&refresh, &token)?
IssueRefresh(p) ==
    /\ pc[p] = "i_refresh"
    /\ \E io \in IoOutcomes :
         LET token == Token(loc[p].access, Some(loc[p].refresh), loc[p].garg) IN
         /\ Fault(io)
         /\ IF io = "io"
            THEN /\ Finish(p, loc[p], Err("StoreError"))
                 /\ UNCHANGED store
            ELSE /\ store' = SetKey(store, loc[p].refresh, TokenJson(token))
                 /\ Goto(p, "i_usage", loc[p])
    /\ UNCHANGED <<ncalls, tagger, flimit, ghost, before, registrar>>

\* issue: self.set_u64("usage", next_usage)?; Ok(IssuedToken {token: access,
\* refresh: Some(refresh), until, token_type: Bearer})
IssueUsage(p) ==
    /\ pc[p] = "i_usage"
    /\ \E io \in IoOutcomes :
         /\ Fault(io)
         /\ IF io = "io"
            THEN /\ Finish(p, loc[p], Err("StoreError"))
                 /\ UNCHANGED <<store, pairs>>
            ELSE /\ store' = SetKey(store, UsageKey, U64Bytes(loc[p].next_usage))
                 /\ pairs' = pairs \cup
                        {Token(loc[p].access, Some(loc[p].refresh), loc[p].garg)}
                 /\ Finish(p, loc[p],
                           Res("Ok", "", loc[p].access, Some(loc[p].refresh), None))
    /\ UNCHANGED <<ncalls, tagger, flimit, handed, redeemed, codes, before, registrar>>

\* refresh: let token: Token = self.get_json(refresh)?
RefreshGet(p, refresh, grant) ==
    /\ CanCall(p)
    /\ ncalls' = ncalls + 1
    /\ before' = store
    /\ \E io \in IoOutcomes :
         LET call == NewCall("refresh", refresh, grant)
             r == GetJson(store, io, refresh, "token")
         IN /\ Fault(io)
            /\ IF r.ok
               THEN Goto(p, "r_del", [call EXCEPT !.rec = r.value])
               ELSE Finish(p, call, Err(r.cause))
    /\ UNCHANGED <<store, tagger, flimit, ghost, registrar>>

\* refresh: self.store.delete(refresh)?; assert!(refresh == token.refresh.unwrap());
\* self.set_duration(&mut grant)
RefreshDelete(p) ==
    /\ pc[p] = "r_del"
    /\ \E io \in IoOutcomes :
         /\ Fault(io)
         /\ IF io = "io"
            THEN /\ Finish(p, loc[p], Err("StoreError"))
                 /\ UNCHANGED store
            ELSE /\ store' = DeleteKey(store, loc[p].arg)
                 /\ IF loc[p].rec.refresh = None
                    THEN Finish(p, loc[p], Panic("unwrap on None"))
                    ELSE IF loc[p].rec.refresh # Some(loc[p].arg)
                    THEN Finish(p, loc[p], Panic("assertion failed"))
                    ELSE Goto(p, "r_usage", [loc[p] EXCEPT !.garg = SetDuration(@)])
    /\ UNCHANGED <<ncalls, tagger, flimit, ghost, before, registrar>>

\* refresh: usage = self.get_u64("usage")?; new_access = tag(usage)?;
\* usage = usage.wrapping_add(1); new_refresh = tag(usage)?
RefreshUsage(p) ==
    /\ pc[p] = "r_usage"
    /\ \E io \in IoOutcomes :
         LET r == GetU64(store, io, UsageKey)
             usage == WrappingAdd(r.n, 1)
             ta == Tag(tagger, r.n, loc[p].garg)
             tr == Tag(tagger, usage, loc[p].garg)
         IN /\ Fault(io)
            /\ IF ~r.ok
               THEN /\ Finish(p, loc[p], Err(r.cause))
                    /\ UNCHANGED handed
               ELSE IF ~ta.ok
               THEN /\ handed' = handed \cup {<<loc[p].call, r.n>>}
                    /\ Finish(p, loc[p], Err("TagGenerationError"))
               ELSE /\ handed' = handed \cup {<<loc[p].call, r.n>>, <<loc[p].call, usage>>}
                    /\ IF ~tr.ok
                       THEN Finish(p, loc[p], Err("TagGenerationError"))
                       ELSE Goto(p, "r_access", [loc[p] EXCEPT !.usage = usage,
                                                               !.access = ta.tag,
                                                               !.refresh = tr.tag])
    /\ UNCHANGED <<store, ncalls, tagger, flimit, redeemed, codes, pairs, before, registrar>>

\* refresh: self.store.delete(&token.access)?; and the body ends there, with no
\* RefreshedToken: new_access and new_refresh are dropped.
RefreshAccess(p) ==
    /\ pc[p] = "r_access"
    /\ \E io \in IoOutcomes :
         /\ Fault(io)
         /\ IF io = "io"
            THEN /\ Finish(p, loc[p], Err("StoreError"))
                 /\ UNCHANGED store
            ELSE /\ store' = DeleteKey(store, loc[p].rec.access)
                 /\ Finish(p, loc[p],
                           Res("NoValue", "", loc[p].access, Some(loc[p].refresh), None))
    /\ UNCHANGED <<ncalls, tagger, flimit, ghost, before, registrar>>

\* recover_token: todo!()
RecoverToken(p, token) ==
    /\ CanCall(p)
    /\ ncalls' = ncalls + 1
    /\ before' = store
    /\ Finish(p, NewCall("recover_token", token, ""), Panic("not yet implemented"))
    /\ UNCHANGED <<store, faults, tagger, flimit, ghost, registrar>>

\* recover_refresh: todo!()
RecoverRefresh(p, token) ==
    /\ CanCall(p)
    /\ ncalls' = ncalls + 1
    /\ before' = store
    /\ Finish(p, NewCall("recover_refresh", token, ""), Panic("not yet implemented"))
    /\ UNCHANGED <<store, faults, tagger, flimit, ghost, registrar>>

\* ------------------------------------------------------------- Registrar
\* A register that keeps the record already stored under the id (mutant of
\* RegisterStore).
RegisterStoreFirstWins(s, client) ==
    IF s[client.client_id] = Absent
    THEN SetKey(s, client.client_id, ClientJson(client))
    ELSE s
\* regist_from_encoded_client: self.set_json(&client.client_id, &client)
RegisterStore(s, client) == SetKey(s, client.client_id, ClientJson(client))

\* regist_from_encoded_client: self.set_json(&client.client_id, &client)?; Ok(())
Register(client) ==
    /\ ncalls < MaxCalls
    /\ ncalls' = ncalls + 1
    /\ \E io \in IoOutcomes :
         /\ Fault(io)
         /\ IF io = "io"
            THEN /\ regret' = RegRes("register", client.client_id, ncalls + 1,
                                     "Err", "StoreError", None)
                 /\ UNCHANGED <<clients, registered>>
            ELSE /\ clients' = RegisterStore(clients, client)
                 /\ registered' = [registered EXCEPT ![client.client_id] = Append(@, client)]
                 /\ regret' = RegRes("register", client.client_id, ncalls + 1,
                                     "Ok", "", None)
    /\ UNCHANGED <<store, pc, loc, ret, flimit, tagger, ghost, before>>

\* find_client_by_id: Ok(self.get_json(id)?)
FindClientById(id) ==
    /\ ncalls < MaxCalls
    /\ ncalls' = ncalls + 1
    /\ \E io \in IoOutcomes :
         LET r == GetJson(clients, io, id, "client") IN
         /\ Fault(io)
         /\ regret' = IF r.ok
                      THEN RegRes("find_client_by_id", id, ncalls + 1, "Ok", "",
                                  Some([client_id |-> r.value.client_id,
                                        data |-> r.value.data]))
                      ELSE RegRes("find_client_by_id", id, ncalls + 1, "Err", r.cause, None)
    /\ UNCHANGED <<store, pc, loc, ret, flimit, tagger, ghost, before, clients, registered>>

\* ------------------------------------------------------------ specification
\* The state after construction: a store holding the counter only (usage0 is
\* its bytes, or Absent), callers idle.
InitWith(usage0, nfaults, kind) ==
    /\ store = [k \in Keys |-> IF k = UsageKey THEN usage0 ELSE Absent]
    /\ pc = [p \in Procs |-> "idle"]
    /\ loc = [p \in Procs |-> IdleLoc]
    /\ ret = [p \in Procs |-> NoRet]
    /\ ncalls = 0
    /\ faults = 0
    /\ flimit = nfaults
    /\ tagger = kind
    /\ handed = {}
    /\ redeemed = [k \in Keys |-> 0]
    /\ codes = [k \in Keys |-> None]
    /\ pairs = {}
    /\ before = store
    /\ clients = [id \in ClientIds |-> Absent]
    /\ registered = [id \in ClientIds |-> <<>>]
    /\ regret = NoRegRet

\* A reliable store with the counter at zero.
Init == InitWith(U64Bytes(0), 0, "counter")

\* A store that may fail MaxFaults calls, with the counter at zero.
InitSeq == InitWith(U64Bytes(0), MaxFaults, "counter")

\* One store call of one caller.
Step(p) ==
    \/ \E g \in Grants : AuthorizeGet(p, g)
    \/ AuthorizeSet(p)
    \/ AuthorizeUsage(p)
    \/ \E t \in Tokens : ExtractGet(p, t)
    \/ ExtractDelete(p)
    \/ \E g \in Grants : IssueGet(p, g)
    \/ IssueAccess(p)
    \/ IssueRefresh(p)
    \/ IssueUsage(p)
    \/ \E t \in Tokens, g \in Grants : RefreshGet(p, t, g)
    \/ RefreshDelete(p)
    \/ RefreshUsage(p)
    \/ RefreshAccess(p)
    \/ \E t \in Tokens : RecoverToken(p, t)
    \/ \E t \in Tokens : RecoverRefresh(p, t)

\* Concurrent request contexts on one store: their store calls interleave.
Next == \E p \in Procs : Step(p)

\* One request context at a time: every call runs to its end before the next.
SeqNext == Step(1)

Spec == Init /\ [][Next]_vars

SpecSeq == InitSeq /\ [][SeqNext]_vars

\* The calls of the registrar, one at a time.
RegNext ==
    \/ \E c \in Clients : Register(c)
    \/ \E id \in ClientIds : FindClientById(id)

SpecReg == InitSeq /\ [][RegNext]_vars

\* One caller at a time on a store whose counter was never written, or is at zero.
InitUninit == \E u \in {Absent, U64Bytes(0)} : InitWith(u, MaxFaults, "counter")

SpecUninit == InitUninit /\ [][SeqNext]_vars

\* One caller at a time on a reliable store whose counter is at the top of its range.
InitWrap == \E n \in {Modulus - 2, Modulus - 1} : InitWith(U64Bytes(n), 0, "counter")

SpecWrap == InitWrap /\ [][SeqNext]_vars

\* One caller at a time, the authorizer and issuer built with any of the tag
\* generators.
InitTag == \E kind \in TaggerKinds : InitWith(U64Bytes(0), MaxFaults, kind)

SpecTag == InitTag /\ [][SeqNext]_vars

\* ------------------------------------------------------------------ claims
AllIdle == \A p \in Procs : pc[p] = "idle"

\* This step completed a call of p (call numbers are never reused).
Returned(p) == ret'[p].call # ret[p].call

\* C1: sequential single use of codes.  On a store whose calls have all
\* succeeded, an extract of a code that an authorize call returned for grant g
\* returns Ok(Some(g)) when no extract of it succeeded before, and fails on the
\* absent key (NotFound) when one did; either way the code is absent afterwards.
C1_SingleUseSequential ==
    [][\A p \in Procs :
         (/\ Returned(p)
          /\ ret'[p].op = "extract"
          /\ codes[ret'[p].arg] # None
          /\ faults' = 0)
         => /\ store'[ret'[p].arg] = Absent
            /\ IF redeemed[ret'[p].arg] = 0
               THEN /\ ret'[p].kind = "Ok"
                    /\ ret'[p].grant = codes[ret'[p].arg]
               ELSE /\ ret'[p].kind = "Err"
                    /\ ret'[p].cause = "NotFound"]_vars

\* C1 witness: a second extract of a code that authorize returned and a first
\* extract redeemed has failed with NotFound, no store call having failed.
C1_Witness ==
    \E p \in Procs :
        /\ ret[p].op = "extract"
        /\ ret[p].kind = "Err"
        /\ ret[p].cause = "NotFound"
        /\ codes[ret[p].arg] # None
        /\ redeemed[ret[p].arg] = 1
        /\ faults = 0

\* C2: concurrent single use of codes.  Of the callers that extract one stored
\* code, at most one returns the grant: no code is redeemed twice after the
\* authorize call that stored it.
C2_AtMostOneRedemption == \A k \in Keys : redeemed[k] <= 1

\* C3: tag uniqueness under concurrency.  The counter values handed to the tag
\* generator over the lifetime of the store are pairwise distinct.
C3_HandedDistinct ==
    \A e1 \in handed, e2 \in handed : e1[2] = e2[2] => e1 = e2

\* C4: concurrent authorize calls on distinct grants that all succeed return
\* pairwise distinct codes.
C4_DistinctCodes ==
    \A p \in Procs, q \in Procs :
        (/\ p # q
         /\ ret[p].op = "authorize" /\ ret[p].kind = "Ok"
         /\ ret[q].op = "authorize" /\ ret[q].kind = "Ok"
         /\ ret[p].garg # ret[q].garg)
        => ret[p].token # ret[q].token

\* The token pair pr, returned by a successful issue, is still stored as issued.
Live(pr) ==
    /\ store[pr.access] = TokenJson(pr)
    /\ store[pr.refresh[1]] = TokenJson(pr)

\* C5: a successful issue(g) returns an access and a refresh token that differ,
\* and afterwards recover_token(access) and recover_refresh(refresh) both
\* return Some(g).
C5_IssueThenRecover ==
    [][/\ \A pr \in pairs' : Some(pr.access) # pr.refresh
       /\ \A p \in Procs, pr \in pairs :
            (/\ Returned(p)
             /\ Live(pr)
             /\ \/ ret'[p].op = "recover_token" /\ ret'[p].arg = pr.access
                \/ ret'[p].op = "recover_refresh" /\ Some(ret'[p].arg) = pr.refresh)
            => /\ ret'[p].kind = "Ok"
               /\ ret'[p].grant = Some(pr.grant)]_vars

\* C6: token rotation.  When refresh(old_refresh, g) has run through, the old
\* refresh key and the old access key are absent, it has returned a new pair
\* that differs from the old one, and the record of the new pair for g is
\* stored under both new keys.
C6_Rotation ==
    [][\A p \in Procs :
         (/\ Returned(p)
          /\ ret'[p].op = "refresh"
          /\ ret'[p].kind \in {"Ok", "NoValue"})
         => LET old == loc[p].rec
                new == Token(ret'[p].token, ret'[p].refresh, ret'[p].garg)
            IN /\ store'[ret'[p].arg] = Absent
               /\ store'[old.access] = Absent
               /\ ret'[p].kind = "Ok"
               /\ new.access \notin {old.access, ret'[p].arg}
               /\ new.refresh \notin {Some(old.access), Some(ret'[p].arg)}
               /\ store'[new.access] = TokenJson(new)
               /\ store'[new.refresh[1]] = TokenJson(new)]_vars

\* Both copies of every stored token record are there and identical.
Paired(s) ==
    \A k \in Keys :
        s[k].kind = "token" =>
            /\ (k = s[k].access /\ s[k].refresh # None) => s[s[k].refresh[1]] = s[k]
            /\ k # s[k].access => s[s[k].access] = s[k]

\* C7: paired token records.  After any sequence of issue and refresh calls,
\* calls that failed part-way included, every token record stored under its
\* access key has an identical copy under its refresh key, and the other way round.
C7_PairedRecords == AllIdle => Paired(store)

\* C8: write ordering.  The refresh-keyed copy is written before the
\* access-keyed copy, so in every state, between the two writes included, an
\* access-keyed record has its refresh-keyed copy.
C8_RefreshCopyFirst ==
    \A k \in Keys :
        (store[k].kind = "token" /\ k = store[k].access /\ store[k].refresh # None)
        => store[store[k].refresh[1]] = store[k]

\* C9: counter values are never reused in a sequential run.  With every store
\* call succeeding and below wraparound, no counter value is handed to the tag
\* generator by two different calls, and between calls the stored counter has
\* advanced by one for every tag consumed.
C9_NoCounterReuse ==
    faults = 0 =>
        /\ \A e1 \in handed, e2 \in handed : e1[1] # e2[1] => e1[2] # e2[2]
        /\ AllIdle => store[UsageKey] = U64Bytes(Cardinality(handed))

\* C10: recover_token and recover_refresh leave the store unchanged, return
\* the grant of the token record stored under the token, and return None when
\* no record is stored under it.
C10_RecoverLookup ==
    [][\A p \in Procs :
         (Returned(p) /\ ret'[p].op \in {"recover_token", "recover_refresh"})
         => /\ store' = store
            /\ store[ret'[p].arg].kind = "token"
                 => ret'[p].kind = "Ok" /\ ret'[p].grant = Some(store[ret'[p].arg].grant)
            /\ store[ret'[p].arg] = Absent
                 => ret'[p].kind = "Ok" /\ ret'[p].grant = None]_vars

\* C11: refresh checks the refresh field of the record it found under
\* old_refresh_token; when the field is another token or None, the call returns
\* the error Conflict.
C11_RefreshConflict ==
    [][\A p \in Procs :
         (/\ pc[p] = "r_del"
          /\ pc'[p] # "r_del"
          /\ loc[p].rec.refresh # Some(loc[p].arg)
          /\ faults' = faults)
         => /\ Returned(p)
            /\ ret'[p].kind = "Err"
            /\ ret'[p].cause = "Conflict"]_vars

\* C12: with a tag generator that produces the empty tag, an authorize or issue
\* call that reaches the generator fails with TagGenerationError, and nothing is
\* stored under the empty key.
C12_EmptyTagRejected ==
    tagger = "empty" =>
        /\ store[""] = Absent
        /\ \A p \in Procs :
             (/\ ret[p].op \in {"authorize", "issue"}
              /\ \E e \in handed : e[1] = ret[p].call)
             => ret[p].kind = "Err" /\ ret[p].cause = "TagGenerationError"

\* C13: client registrar round trip.  A find_client_by_id(id) whose store call
\* works returns the client registered last under id, and fails with NotFound
\* when none was registered under id.
C13_RegistrarRoundTrip ==
    [][(/\ regret'.call # regret.call
        /\ regret'.op = "find_client_by_id"
        /\ faults' = faults)
       => IF registered[regret'.id] = <<>>
          THEN regret'.kind = "Err" /\ regret'.cause = "NotFound"
          ELSE /\ regret'.kind = "Ok"
               /\ regret'.client =
                    Some(registered[regret'.id][Len(registered[regret'.id])])]_vars

\* C13 witness: two different clients were registered under one id and a find
\* of that id returned the later one.
C13_Witness ==
    /\ regret.op = "find_client_by_id"
    /\ regret.kind = "Ok"
    /\ Len(registered[regret.id]) = 2
    /\ registered[regret.id][1] # registered[regret.id][2]
    /\ regret.client = Some(registered[regret.id][2])

\* C14: failures are distinguishable.  Two failed calls of authorize, extract,
\* issue or refresh whose causes differ (absent key, malformed bytes, store
\* failure, tag generator failure) gave their callers different error values.
C14_DistinctErrors ==
    \A p \in Procs, q \in Procs :
        (/\ ret[p].kind = "Err" /\ ret[q].kind = "Err"
         /\ {ret[p].op, ret[q].op} \subseteq {"authorize", "extract", "issue", "refresh"}
         /\ ret[p].cause # ret[q].cause)
        => ErrValue(ret[p].cause) # ErrValue(ret[q].cause)

\* C15: no call of a public operation ends by a panic or without a value: each
\* returns a result or an error value.
C15_NoPanic == \A p \in Procs : ret[p].kind \in {"", "Ok", "Err"}

\* C16: a refresh that fails because the record's refresh field does not match,
\* because the counter cannot be read or because tag generation fails has
\* deleted nothing: the store is as before the call.
C16_FailedRefreshKeepsPair ==
    [][\A p \in Procs :
         (/\ Returned(p)
          /\ ret'[p].op = "refresh"
          /\ ret'[p].kind # "Ok"
          /\ \/ pc[p] = "r_del" /\ loc[p].rec.refresh # Some(loc[p].arg)
             \/ pc[p] = "r_usage")
         => store' = before]_vars

\* C17: failure atomicity of authorize and issue.  When either returns a
\* failure, the store is as before the call: no record was written and the
\* counter is unchanged.
C17_FailureAtomic ==
    [][\A p \in Procs :
         (/\ Returned(p)
          /\ ret'[p].op \in {"authorize", "issue"}
          /\ ret'[p].kind = "Err")
         => store' = before']_vars

\* C18: uninitialised counter.  While the key "usage" is absent, every step
\* leaves it absent and leaves the store without any code or token record, and
\* every authorize and issue call that returns has failed.
C18_UninitialisedStays ==
    [][store[UsageKey] = Absent
       => /\ \A k \in Keys : store'[k] = Absent
          /\ \A p \in Procs :
               (Returned(p) /\ ret'[p].op \in {"authorize", "issue"})
               => ret'[p].kind = "Err"]_vars

\* C18 witness: on a store without the counter, MaxCalls calls were made, the
\* last an issue that failed, and the store is still empty.
C18_Witness ==
    /\ \A k \in Keys : store[k] = Absent
    /\ ncalls = MaxCalls
    /\ ret[1].op = "issue"
    /\ ret[1].call = MaxCalls
    /\ ret[1].kind = "Err"

\* C19: wraparound.  No authorize or issue call ends in an arithmetic overflow;
\* authorize at counter 2^w-1 hands 2^w-1 to the tag generator and stores 0, and
\* issue at counter 2^w-2 hands 2^w-2 and 2^w-1 and stores 0.
C19_WrapWithoutOverflow ==
    [][\A p \in Procs :
         (Returned(p) /\ ret'[p].op \in {"authorize", "issue"})
         => /\ ret'[p].kind # "Panic"
            /\ (ret'[p].op = "authorize" /\ pc[p] = "a_usage"
                /\ loc[p].usage = Modulus - 1 /\ ret'[p].kind = "Ok")
                 => /\ <<ret'[p].call, Modulus - 1>> \in handed'
                    /\ store'[UsageKey] = U64Bytes(0)
            /\ (ret'[p].op = "issue" /\ pc[p] = "i_usage"
                /\ loc[p].usage = Modulus - 2 /\ ret'[p].kind = "Ok")
                 => /\ {<<ret'[p].call, Modulus - 2>>, <<ret'[p].call, Modulus - 1>>}
                        \subseteq handed'
                    /\ store'[UsageKey] = U64Bytes(0)]_vars

\* C20: frame of extract.  A successful extract(code) removes the key code and
\* nothing else: the counter and every other entry are as before the call.  A
\* failed extract leaves the whole store as before the call.
C20_ExtractFrame ==
    [][\A p \in Procs :
         (Returned(p) /\ ret'[p].op = "extract")
         => IF ret'[p].kind = "Ok"
            THEN /\ before'[ret'[p].arg] # Absent
                 /\ store' = [before' EXCEPT ![ret'[p].arg] = Absent]
            ELSE store' = before']_vars

\* C20 witness: an extract has returned Ok on a store that held another record
\* beside the code, and only the code is gone.
C20_Witness ==
    /\ pc[1] = "idle"
    /\ ret[1].op = "extract"
    /\ ret[1].kind = "Ok"
    /\ before[ret[1].arg] # Absent
    /\ store[ret[1].arg] = Absent
    /\ \E k \in Keys \ {UsageKey, ret[1].arg} : store[k] # Absent /\ store[k] = before[k]
====
